---- MODULE Spec2Model ----
(***************************************************************************)
(* Cell-to-operation compilers of chidori-core: the signature deriver, the *)
(* source-code cell compiler and its runtime dispatch, the LLM             *)
(* code-generation cell compiler and the chat prompt cell with its OpenAI  *)
(* batch adapter.                                                          *)
(***************************************************************************)
EXTENDS Integers, Sequences, FiniteSets, TLC

VARIABLES
    \* ---- signature deriver (code_cell.rs, signatures_from_report) ----
    report,        \* the dependency report handed to the deriver
    derived,       \* None, or the (input_signature, output_signature) pair returned
    \* ---- source-code cell (code_cell.rs, code_cell and its closures) ----
    cell,          \* the CodeCell being compiled
    node,          \* None, or the OperationNode built by code_cell
    compile_result,\* "none" | "ok" | "err": outcome of the last code_cell call
    inv,           \* per invocation: position, arguments, backend result, envelopes
    contexts,      \* isolated execution contexts created by the Deno closure
    \* ---- code-generation cell (code_gen_cell.rs) ----
    gcell,         \* the LLMCodeGenCell
    gnode,         \* None, or the OperationNode built by code_gen_cell
    gcompile,      \* outcome and locals of the last code_gen_cell call
    gexec,         \* None, or the closure built by code_gen_cell_exec_openai
    ginv,          \* the invocation of that closure in progress, and its envelopes
    backend_calls, \* the calls of ai_llm_code_generation_chat_model so far, in order
    \* ---- chat prompt cell (llm_prompt_cell.rs, openai/batch.rs) ----
    pcell,         \* the LLMPromptCell
    pnode,         \* None, or the OperationNode built by llm_prompt_cell
    pinv,          \* the invocations of the prompt closure, one per caller
    batch_reqs,    \* ChatCompletionReq values handed to ChatModelBatch::batch
    provider_reqs  \* ChatCompletionRequest values the adapter sent to the provider

deriver_vars == <<report, derived>>
code_vars    == <<cell, node, compile_result, inv, contexts>>
gen_vars     == <<gcell, gnode, gcompile, gexec, ginv, backend_calls>>
prompt_vars  == <<pcell, pnode, pinv, batch_reqs, provider_reqs>>
vars == <<deriver_vars, code_vars, gen_vars, prompt_vars>>

----------------------------------------------------------------------------
(* Bounds *)

MaxArgs == 2       \* longest argument list of a triggerable function
MaxInv == 2        \* concurrent invocations of one node
MaxLines == 1      \* longest captured stdout / stderr
MaxBlocks == 2     \* most role blocks in a template body
MaxCompiles == 2   \* compile attempts of one cell
MaxCalls == 2      \* invocations of a code-generation closure
MaxChoices == 2    \* most choices in a chat completion response

----------------------------------------------------------------------------
(* Option, map and value helpers *)

None == [tag |-> "None"]
Some(v) == [tag |-> "Some", v |-> v]

EmptyMap == [k \in {} |-> None]
MapInsert(m, k, v) == [x \in (DOMAIN m) \cup {k} |-> IF x = k THEN v ELSE m[x]]

SeqsUpTo(S, n) == UNION {[1..k -> S] : k \in 0..n}

\* RkyvSerializedValue, the closed value type
Null == [tag |-> "Null"]
String(s) == [tag |-> "String", s |-> s]

----------------------------------------------------------------------------
(* Signature model *)

InputTypeString == "String"

InputItemConfiguration(ty, default) == [ty |-> ty, default |-> default]

InputSignature_new == [globals |-> EmptyMap, args |-> EmptyMap]

OutputSignature_new == [globals |-> EmptyMap, functions |-> EmptyMap]

OutputItemConfiguration_Value == [tag |-> "Value"]

OutputItemConfiguration_Function(input_signature, emit_event, trigger_on) ==
    [tag |-> "Function", input_signature |-> input_signature,
     emit_event |-> emit_event, trigger_on |-> trigger_on]

----------------------------------------------------------------------------
(* Signature deriver: signatures_from_report *)

Names == {"a", "b", "c"}
FnNames == {"f", "g"}
ArgNames == {"x", "y"}

\* a report map is name -> value; the value is never read by the deriver
ReportMaps == UNION {[S -> {"_"}] : S \in SUBSET Names}
TriggerableFunctions ==
    UNION {[S -> [arguments : SeqsUpTo(ArgNames, MaxArgs)]] : S \in SUBSET FnNames}
Reports == [cell_depended_values : ReportMaps,
            cell_exposed_values : ReportMaps,
            triggerable_functions : TriggerableFunctions]

\* for (key, value) in &report.cell_depended_values { input_signature.globals.insert(..) }
RECURSIVE InsertDepended(_, _)
InsertDepended(keys, sig) ==
    IF keys = {} THEN sig
    ELSE LET key == CHOOSE k \in keys : TRUE
         IN InsertDepended(keys \ {key},
                [sig EXCEPT !.globals =
                    MapInsert(@, key, InputItemConfiguration(Some(InputTypeString), None))])

\* for (key, value) in &report.cell_exposed_values { output_signature.globals.insert(..) }
RECURSIVE InsertExposed(_, _)
InsertExposed(keys, sig) ==
    IF keys = {} THEN sig
    ELSE LET key == CHOOSE k \in keys : TRUE
         IN InsertExposed(keys \ {key},
                [sig EXCEPT !.globals = MapInsert(@, key, OutputItemConfiguration_Value)])

\* for (i, arg) in value.arguments.iter().enumerate() { input_signature.args.insert(..) }
RECURSIVE InsertArgs(_, _, _)
InsertArgs(arguments, i, sig) ==
    IF i > Len(arguments) THEN sig
    ELSE InsertArgs(arguments, i + 1,
            [sig EXCEPT !.args =
                MapInsert(@, arguments[i], InputItemConfiguration(Some(InputTypeString), None))])

\* for (key, value) in &report.triggerable_functions { ... output_signature.functions.insert(..) }
RECURSIVE InsertFunctions(_, _, _)
InsertFunctions(fns, keys, sig) ==
    IF keys = {} THEN sig
    ELSE LET key == CHOOSE k \in keys : TRUE
             input_signature == InsertArgs(fns[key].arguments, 1, InputSignature_new)
         IN InsertFunctions(fns, keys \ {key},
                [sig EXCEPT !.functions =
                    MapInsert(@, key,
                        OutputItemConfiguration_Function(input_signature, <<>>, <<>>))])

\* a deriver whose functions loop writes the arguments into the node's own
\* input signature as well
signatures_from_report_unshadowed(r) ==
    LET fns == r.triggerable_functions
        all_args == UNION {{fns[f].arguments[i] : i \in DOMAIN fns[f].arguments} :
                              f \in DOMAIN fns}
        depended == InsertDepended(DOMAIN r.cell_depended_values, InputSignature_new)
        input_signature ==
            [depended EXCEPT !.args =
                [k \in all_args |-> InputItemConfiguration(Some(InputTypeString), None)]]
        output_signature ==
            InsertFunctions(fns, DOMAIN fns,
                InsertExposed(DOMAIN r.cell_exposed_values, OutputSignature_new))
    IN <<input_signature, output_signature>>

\* a deriver that files the exposed values under the depended-upon names
signatures_from_report_swapped(r) ==
    LET input_signature ==
            InsertDepended(DOMAIN r.cell_exposed_values, InputSignature_new)
        output_signature ==
            InsertFunctions(r.triggerable_functions, DOMAIN r.triggerable_functions,
                InsertExposed(DOMAIN r.cell_depended_values, OutputSignature_new))
    IN <<input_signature, output_signature>>

signatures_from_report(r) ==
    LET input_signature ==
            InsertDepended(DOMAIN r.cell_depended_values, InputSignature_new)
        output_signature ==
            InsertFunctions(r.triggerable_functions, DOMAIN r.triggerable_functions,
                InsertExposed(DOMAIN r.cell_exposed_values, OutputSignature_new))
    IN <<input_signature, output_signature>>

----------------------------------------------------------------------------
(* Runtime output envelope and execution state *)

\* ExecutionState::new(): an empty context
ExecutionState_new == [bindings |-> {}]

OperationFnOutput(has_error, execution_state, output, stdout, stderr) ==
    [has_error |-> has_error, execution_state |-> execution_state,
     output |-> output, stdout |-> stdout, stderr |-> stderr]

\* OperationFnOutput::with_value(v)
with_value(v) == OperationFnOutput(FALSE, None, v, <<>>, <<>>)

\* the (execution state, input) pairs a closure is called with
CallArgs == {[s |-> ExecutionState_new, x |-> String("v1")],
             [s |-> [bindings |-> {"k"}], x |-> String("v2")]}

\* what a backend has captured on stdout and stderr when it stops
Captured == {[stdout |-> [i \in 1..n |-> "out"], stderr |-> [i \in 1..n |-> "err"]] :
                n \in 0..MaxLines}

----------------------------------------------------------------------------
(* Source-code cell: code_cell and its three closures *)

\* Source text is kept as what the static analysis makes of it: whether it
\* parses, and the report built from it.
ReportEmpty == [cell_depended_values |-> EmptyMap, cell_exposed_values |-> EmptyMap,
                triggerable_functions |-> EmptyMap]
ReportAB == [cell_depended_values |-> [k \in {"a", "b"} |-> "_"],
             cell_exposed_values |-> [k \in {"c"} |-> "_"],
             triggerable_functions |-> [k \in {"f"} |-> [arguments |-> <<"x", "y">>]]]

CodeSources == {[text |-> "src1", parses |-> TRUE, report |-> ReportAB],
                [text |-> "src2", parses |-> TRUE, report |-> ReportEmpty],
                [text |-> "bad", parses |-> FALSE, report |-> ReportEmpty]}

Languages == {"PyO3", "Starlark", "Deno"}

CodeCells == {[name |-> IF src.text = "src1" THEN Some("cell") ELSE None,
               language |-> l, source_code |-> src,
               function_invocation |-> (src.text = "src2")] :
                  l \in Languages, src \in CodeSources}
             \ {c \in [name : {None}, language : {"Deno", "Starlark"},
                        source_code : CodeSources, function_invocation : BOOLEAN] :
                    ~c.source_code.parses}

\* extract_dependencies_python(source)? : Err on a parse failure
extract_dependencies_python(source_code) ==
    IF source_code.parses THEN [ok |-> TRUE, paths |-> source_code.report]
    ELSE [ok |-> FALSE, paths |-> ReportEmpty]

\* extract_dependencies_js(source): infallible
extract_dependencies_js(source_code) == source_code.report

build_report(paths) == paths

\* OperationNode::new(name, input_signature, output_signature, closure): the
\* closure is kept as the language arm that built it plus the captured cell
OperationNode_new(name, input_signature, output_signature, closure, captured) ==
    [name |-> name, input_signature |-> input_signature,
     output_signature |-> output_signature, closure |-> closure, cell |-> captured]

\* a code_cell whose Starlark arm derives signatures from the source like the others
code_cell_starlark_derived(c) ==
    CASE c.language = "PyO3" ->
            LET paths == extract_dependencies_python(c.source_code)
            IN IF ~paths.ok THEN [ok |-> FALSE, node |-> None]
               ELSE LET sigs == signatures_from_report(build_report(paths.paths))
                    IN [ok |-> TRUE,
                        node |-> Some(OperationNode_new(c.name, sigs[1], sigs[2], "PyO3", c))]
      [] c.language = "Starlark" ->
            LET sigs == signatures_from_report(
                            build_report(extract_dependencies_js(c.source_code)))
            IN [ok |-> TRUE,
                node |-> Some(OperationNode_new(c.name, sigs[1], sigs[2], "Starlark", c))]
      [] c.language = "Deno" ->
            LET sigs == signatures_from_report(
                            build_report(extract_dependencies_js(c.source_code)))
            IN [ok |-> TRUE,
                node |-> Some(OperationNode_new(c.name, sigs[1], sigs[2], "Deno", c))]

\* code_cell(cell): Ok(node) or Err
code_cell(c) ==
    CASE c.language = "PyO3" ->
            LET paths == extract_dependencies_python(c.source_code)
            IN IF ~paths.ok THEN [ok |-> FALSE, node |-> None]
               ELSE LET sigs == signatures_from_report(build_report(paths.paths))
                    IN [ok |-> TRUE,
                        node |-> Some(OperationNode_new(c.name, sigs[1], sigs[2], "PyO3", c))]
      [] c.language = "Starlark" ->
            [ok |-> TRUE,
             node |-> Some(OperationNode_new(c.name, InputSignature_new,
                                             OutputSignature_new, "Starlark", c))]
      [] c.language = "Deno" ->
            LET sigs == signatures_from_report(
                            build_report(extract_dependencies_js(c.source_code)))
            IN [ok |-> TRUE,
                node |-> Some(OperationNode_new(c.name, sigs[1], sigs[2], "Deno", c))]

\* What a backend run computes from the source, the state it runs against and
\* its input; the adapters are opaque, so the value only records its origin.
RunValue(source_code, state, x) ==
    [tag |-> "Object", src |-> source_code.text, state |-> state, of |-> x]

\* Result<(Value, Vec<String>, Vec<String>)> of a backend adapter, with the
\* lines the adapter had captured when it stopped
BackendNone == [done |-> FALSE, ok |-> FALSE, value |-> Null, stdout |-> <<>>, stderr |-> <<>>]
BackendOk(v, out, err) == [done |-> TRUE, ok |-> TRUE, value |-> v, stdout |-> out, stderr |-> err]
BackendErr(out, err) == [done |-> TRUE, ok |-> FALSE, value |-> Null, stdout |-> out, stderr |-> err]

\* source_code_run_python(&s, &source, &x, &function_invocation)
source_code_run_python(s, source_code, x, function_invocation) ==
    {BackendOk(RunValue(source_code, s, x), c.stdout, c.stderr) : c \in Captured}
    \cup {BackendErr(c.stdout, c.stderr) : c \in Captured}

InvIds == 1..MaxInv

\* invocations are numbered in the order they arrive
NextToArrive(i) == inv[i].pc = "idle" /\ \A j \in 1..(i - 1) : inv[j].pc # "idle"

\* what the JoinHandle of the spawn_blocking task resolves to: the value the
\* blocking closure returned, or a JoinError when the closure panicked
TaskOk(v) == [ok |-> TRUE, value |-> v]
TaskPanicked == [ok |-> FALSE, value |-> Null]

InvIdle == [pc |-> "idle", s |-> ExecutionState_new, x |-> Null, ctx |-> 0,
            backend |-> BackendNone, backend_calls |-> 0, task |-> None,
            envelopes |-> <<>>]

\* an isolated context: the tokio runtime and the ExecutionState built for one run
ContextNew(x) == [state |-> ExecutionState_new, input |-> x, loaded |-> None,
                  result |-> BackendNone, live |-> TRUE]

\* an isolated run handed the caller's execution state
DenoRunStateCaller(s) == s

\* the state the Deno closure hands to source_code_run_deno:
\* &ExecutionState::new(), whatever state s the caller passed
DenoRunState(s) == ExecutionState_new

\* every Runtime::new() yields a context of its own
NewContextIdShared(ctxs) == 1

NewContextId(ctxs) == Cardinality(DOMAIN ctxs) + 1

CodeInit ==
    /\ cell \in CodeCells
    /\ node = None
    /\ compile_result = "none"
    /\ inv = [i \in InvIds |-> InvIdle]
    /\ contexts = EmptyMap

\* code_cell(&cell)
Compile ==
    /\ compile_result = "none"
    /\ LET r == code_cell(cell)
       IN /\ compile_result' = IF r.ok THEN "ok" ELSE "err"
          /\ node' = r.node
    /\ UNCHANGED <<cell, inv, contexts>>
    /\ UNCHANGED <<deriver_vars, gen_vars, prompt_vars>>

Closure(kind) == node # None /\ node.v.closure = kind

\* PyO3 closure up to the await of source_code_run_python
PyInvoke(i, s, x) ==
    /\ Closure("PyO3")
    /\ NextToArrive(i)
    /\ inv' = [inv EXCEPT ![i] = [@ EXCEPT !.pc = "awaiting", !.s = s, !.x = x,
                                           !.backend_calls = @ + 1]]
    /\ UNCHANGED <<cell, node, compile_result, contexts>>
    /\ UNCHANGED <<deriver_vars, gen_vars, prompt_vars>>

\* the await completes: .unwrap() panics on Err, otherwise the envelope is built
PyResume(i) ==
    /\ Closure("PyO3")
    /\ inv[i].pc = "awaiting"
    /\ \E result \in source_code_run_python(inv[i].s, node.v.cell.source_code, inv[i].x,
                                            node.v.cell.function_invocation) :
          inv' = [inv EXCEPT ![i] =
                    IF result.ok
                    THEN [@ EXCEPT !.pc = "returned", !.backend = result,
                                   !.envelopes = Append(@,
                                        OperationFnOutput(FALSE, None, result.value,
                                                          result.stdout, result.stderr))]
                    ELSE [@ EXCEPT !.pc = "panicked", !.backend = result]]
    /\ UNCHANGED <<cell, node, compile_result, contexts>>
    /\ UNCHANGED <<deriver_vars, gen_vars, prompt_vars>>

\* Starlark closure: async move { Ok(OperationFnOutput::with_value(x)) }
StarlarkInvoke(i, s, x) ==
    /\ Closure("Starlark")
    /\ NextToArrive(i)
    /\ inv' = [inv EXCEPT ![i] = [@ EXCEPT !.pc = "returned", !.s = s, !.x = x,
                                           !.envelopes = Append(@, with_value(x))]]
    /\ UNCHANGED <<cell, node, compile_result, contexts>>
    /\ UNCHANGED <<deriver_vars, gen_vars, prompt_vars>>

\* source_code_run_deno(&ExecutionState::new(), &source, &x, &function_invocation)
source_code_run_deno(state, source_code, x, function_invocation) ==
    {BackendOk(RunValue(source_code, state, x), c.stdout, c.stderr) : c \in Captured}
    \cup {BackendErr(c.stdout, c.stderr) : c \in Captured}

\* Deno closure up to spawn_blocking
DenoInvoke(i, s, x) ==
    /\ Closure("Deno")
    /\ NextToArrive(i)
    /\ inv' = [inv EXCEPT ![i] = [@ EXCEPT !.pc = "spawning", !.s = s, !.x = x]]
    /\ UNCHANGED <<cell, node, compile_result, contexts>>
    /\ UNCHANGED <<deriver_vars, gen_vars, prompt_vars>>

\* on the blocking thread: Runtime::new().unwrap() and ExecutionState::new()
DenoStart(i) ==
    /\ Closure("Deno")
    /\ inv[i].pc = "spawning"
    /\ \/ LET c == NewContextId(contexts)
          IN /\ contexts' = MapInsert(contexts, c,
                    [ContextNew(inv[i].x) EXCEPT !.state = DenoRunState(inv[i].s)])
             /\ inv' = [inv EXCEPT ![i] = [@ EXCEPT !.pc = "running", !.ctx = c]]
       \/ \* Runtime::new() fails: the unwrap panics inside the blocking closure
          /\ inv' = [inv EXCEPT ![i] = [@ EXCEPT !.pc = "joining",
                                                 !.task = Some(TaskPanicked)]]
          /\ UNCHANGED contexts
    /\ UNCHANGED <<cell, node, compile_result>>
    /\ UNCHANGED <<deriver_vars, gen_vars, prompt_vars>>

\* block_on(source_code_run_deno(..)): the engine takes the input into its context
DenoLoad(i) ==
    /\ Closure("Deno")
    /\ inv[i].pc = "running"
    /\ contexts' = [contexts EXCEPT ![inv[i].ctx] = [@ EXCEPT !.loaded = Some(inv[i].x)]]
    /\ inv' = [inv EXCEPT ![i] = [@ EXCEPT !.pc = "loaded", !.backend_calls = @ + 1]]
    /\ UNCHANGED <<cell, node, compile_result>>
    /\ UNCHANGED <<deriver_vars, gen_vars, prompt_vars>>

\* the engine evaluates the source against what its context holds
DenoEval(i) ==
    /\ Closure("Deno")
    /\ inv[i].pc = "loaded"
    /\ contexts[inv[i].ctx].loaded # None
    /\ LET c == contexts[inv[i].ctx]
       IN \E result \in source_code_run_deno(c.state, node.v.cell.source_code, c.loaded.v,
                                             node.v.cell.function_invocation) :
             contexts' = [contexts EXCEPT ![inv[i].ctx] = [@ EXCEPT !.result = result]]
    /\ inv' = [inv EXCEPT ![i] = [@ EXCEPT !.pc = "evaluated"]]
    /\ UNCHANGED <<cell, node, compile_result>>
    /\ UNCHANGED <<deriver_vars, gen_vars, prompt_vars>>

\* the blocking closure ends: match result { Ok(v) => v.0, Err(e) => panic!(..) };
\* the runtime is dropped at the end of the closure, or by the unwinding panic
DenoTaskEnd(i) ==
    /\ Closure("Deno")
    /\ inv[i].pc = "evaluated"
    /\ LET result == contexts[inv[i].ctx].result
       IN inv' = [inv EXCEPT ![i] =
                    [@ EXCEPT !.pc = "joining", !.backend = result,
                              !.task = IF result.ok THEN Some(TaskOk(result.value))
                                                    ELSE Some(TaskPanicked)]]
    /\ contexts' = [contexts EXCEPT ![inv[i].ctx] = [@ EXCEPT !.live = FALSE]]
    /\ UNCHANGED <<cell, node, compile_result>>
    /\ UNCHANGED <<deriver_vars, gen_vars, prompt_vars>>

\* the async task is resumed: .await.unwrap() panics on the JoinError,
\* otherwise Ok(OperationFnOutput::with_value(result))
DenoJoin(i) ==
    /\ Closure("Deno")
    /\ inv[i].pc = "joining"
    /\ inv[i].task # None
    /\ inv' = [inv EXCEPT ![i] =
                 IF inv[i].task.v.ok
                 THEN [@ EXCEPT !.pc = "returned",
                                !.envelopes = Append(@, with_value(inv[i].task.v.value))]
                 ELSE [@ EXCEPT !.pc = "panicked"]]
    /\ UNCHANGED <<cell, node, compile_result, contexts>>
    /\ UNCHANGED <<deriver_vars, gen_vars, prompt_vars>>

CodeNext ==
    \/ Compile
    \/ \E i \in InvIds, a \in CallArgs : PyInvoke(i, a.s, a.x)
    \/ \E i \in InvIds : PyResume(i)
    \/ \E i \in InvIds, a \in CallArgs : StarlarkInvoke(i, a.s, a.x)
    \/ \E i \in InvIds, a \in CallArgs : DenoInvoke(i, a.s, a.x)
    \/ \E i \in InvIds : DenoStart(i)
    \/ \E i \in InvIds : DenoLoad(i)
    \/ \E i \in InvIds : DenoEval(i)
    \/ \E i \in InvIds : DenoTaskEnd(i)
    \/ \E i \in InvIds : DenoJoin(i)

DeriverIdle == report = ReportEmpty /\ derived = None
GenIdle == /\ gcell = None /\ gnode = None /\ gcompile = None /\ gexec = None
           /\ ginv = None /\ backend_calls = <<>>
PromptIdle == /\ pcell = None /\ pnode = None /\ pinv = None
              /\ batch_reqs = <<>> /\ provider_reqs = <<>>
CodeIdle == /\ cell = None /\ node = None /\ compile_result = "none"
            /\ inv = <<>> /\ contexts = EmptyMap

InitCode == CodeInit /\ DeriverIdle /\ GenIdle /\ PromptIdle

SpecCode == InitCode /\ [][CodeNext]_vars

----------------------------------------------------------------------------
(* Signature deriver as a state machine: a report comes in, the pair goes out *)

DeriverInit == report \in Reports /\ derived = None

Derive ==
    /\ derived = None
    /\ derived' = Some(signatures_from_report(report))
    /\ UNCHANGED report
    /\ UNCHANGED <<code_vars, gen_vars, prompt_vars>>

DeriverNext == Derive

InitDeriver == DeriverInit /\ CodeIdle /\ GenIdle /\ PromptIdle

SpecDeriver == InitDeriver /\ [][DeriverNext]_vars

----------------------------------------------------------------------------
(* Code-generation cell: code_gen_cell and code_gen_cell_exec_openai *)

\* a role block: (ChatModelRoles, Option<TemplateWithSource>)
RoleBlock(role, template) == [role |-> role, template |-> template]
TemplateWithSource(source) == [source |-> source]

\* the blocks a cell body may hold, in the order written
GenBlocks == {RoleBlock("User", Some(TemplateWithSource("u"))),
              RoleBlock("Assistant", Some(TemplateWithSource("a"))),
              RoleBlock("System", Some(TemplateWithSource("s")))}

\* the fixed template of code_gen_cell.rs:28-33, as its one system block
SystemInstructionTemplate ==
    [blocks |-> <<RoleBlock("System", Some(TemplateWithSource("codegen_instruction")))>>]

\* LLMCodeGenCellChatConfiguration
Configurations == [function_name : {None, Some("gen_fn")}]

\* A complete_body is kept as what the collaborators make of it: whether the
\* front matter splits off, what serde_yaml reads from it (None: not valid),
\* and the template body req with its blocks and referenced placeholders
\* (items None: analyze_referenced_partials fails).
Bodies ==
    [splits : {FALSE}, configuration : {None},
     req : [blocks : {<<>>}, items : {None}]]
    \cup [splits : {TRUE}, configuration : {None},
          req : [blocks : {<<>>}, items : {None}]]
    \cup [splits : {TRUE}, configuration : {Some(c) : c \in Configurations},
          req : [blocks : SeqsUpTo(GenBlocks, MaxBlocks),
                 items : {None, Some([k \in {"a", "b"} |-> "_"])}]]

GenCells == [name : {None, Some("gen")}, provider : {"OpenAI"},
             function_invocation : BOOLEAN, complete_body : Bodies]

\* split_frontmatter(&complete_body)
split_frontmatter(complete_body) ==
    IF complete_body.splits
    THEN [ok |-> TRUE, frontmatter |-> complete_body.configuration, req |-> complete_body.req]
    ELSE [ok |-> FALSE, frontmatter |-> None, req |-> complete_body.req]

\* serde_yaml::from_str(&frontmatter)
serde_yaml_from_str(frontmatter) ==
    IF frontmatter = None THEN [ok |-> FALSE, configuration |-> None]
    ELSE [ok |-> TRUE, configuration |-> frontmatter.v]

analyze_referenced_partials(req) == req.items

extract_roles_from_template(template) == template.blocks

\* an output signature that exposes the cell's name only when no function
\* name is configured
GenOutputSignatureEither(name, configuration) ==
    IF configuration.function_name # None
    THEN [OutputSignature_new EXCEPT !.functions =
             MapInsert(@, configuration.function_name.v, OutputItemConfiguration_Value)]
    ELSE IF name # None
    THEN [OutputSignature_new EXCEPT !.globals =
             MapInsert(@, name.v, OutputItemConfiguration_Value)]
    ELSE OutputSignature_new

\* the output signature of code_gen_cell.rs:36-50
GenOutputSignature(name, configuration) ==
    LET with_fn == IF configuration.function_name # None
                   THEN [OutputSignature_new EXCEPT !.functions =
                            MapInsert(@, configuration.function_name.v,
                                      OutputItemConfiguration_Value)]
                   ELSE OutputSignature_new
    IN IF name # None
       THEN [with_fn EXCEPT !.globals = MapInsert(@, name.v, OutputItemConfiguration_Value)]
       ELSE with_fn

\* an input signature that lists the placeholders whatever the configuration
GenInputSignatureAlways(configuration, schema) ==
    IF schema # None
    THEN InsertDepended(DOMAIN schema.v, InputSignature_new)
    ELSE InputSignature_new

\* the input signature of code_gen_cell.rs:52-65; the schema is unwrapped
\* only when no function name is configured
GenInputSignature(configuration, schema) ==
    IF configuration.function_name = None
    THEN InsertDepended(DOMAIN schema.v, InputSignature_new)
    ELSE InputSignature_new

GenResult(outcome, gen_node, role_blocks) ==
    [outcome |-> outcome, node |-> gen_node, role_blocks |-> role_blocks]

\* a code_gen_cell that builds the node without the function-invocation check
code_gen_cell_unchecked(execution_state_id, c) ==
    LET split == split_frontmatter(c.complete_body)
        parsed == serde_yaml_from_str(split.frontmatter)
        configuration == parsed.configuration
        schema == analyze_referenced_partials(split.req)
        role_blocks == extract_roles_from_template(SystemInstructionTemplate)
                           \o extract_roles_from_template(split.req)
    IN IF ~split.ok THEN GenResult("err", None, None)
       ELSE IF ~parsed.ok THEN GenResult("err", None, None)
       ELSE IF configuration.function_name = None /\ schema = None
            THEN GenResult("panic", None, Some(role_blocks))
       ELSE GenResult("ok",
                Some([name |-> c.name, execution_state_id |-> execution_state_id,
                      input_signature |-> GenInputSignature(configuration, schema),
                      output_signature |-> GenOutputSignature(c.name, configuration),
                      cell |-> c]),
                Some(role_blocks))

\* code_gen_cell(execution_state_id, cell, range): Ok(node), Err, or a panic
code_gen_cell(execution_state_id, c) ==
    LET split == split_frontmatter(c.complete_body)
        parsed == serde_yaml_from_str(split.frontmatter)
        configuration == parsed.configuration
        schema == analyze_referenced_partials(split.req)
        role_blocks == extract_roles_from_template(SystemInstructionTemplate)
                           \o extract_roles_from_template(split.req)
    IN IF ~split.ok THEN GenResult("err", None, None)
       ELSE IF ~parsed.ok THEN GenResult("err", None, None)
       ELSE IF configuration.function_name = None /\ schema = None
            THEN GenResult("panic", None, Some(role_blocks))      \* schema.unwrap()
       ELSE IF configuration.function_name = None /\ c.function_invocation
            THEN GenResult("panic", None, Some(role_blocks))      \* panic!(..)
       ELSE GenResult("ok",
                Some([name |-> c.name, execution_state_id |-> execution_state_id,
                      input_signature |-> GenInputSignature(configuration, schema),
                      output_signature |-> GenOutputSignature(c.name, configuration),
                      cell |-> c]),
                Some(role_blocks))

ExecClosure(name, configuration, is_function_invocation, role_blocks) ==
    [tag |-> "Closure", name |-> name, configuration |-> configuration,
     is_function_invocation |-> is_function_invocation, role_blocks |-> role_blocks]
ExecPanicked == [tag |-> "Panicked"]

\* a code_gen_cell_exec_openai that puts the system block after the cell's own
code_gen_cell_exec_openai_appended(c) ==
    LET split == split_frontmatter(c.complete_body)
        parsed == serde_yaml_from_str(split.frontmatter)
        role_blocks == extract_roles_from_template(split.req)
                           \o extract_roles_from_template(SystemInstructionTemplate)
    IN IF ~split.ok \/ ~parsed.ok THEN ExecPanicked
       ELSE ExecClosure(c.name, parsed.configuration, c.function_invocation, role_blocks)

\* code_gen_cell_exec_openai(cell): the closure, or a panic in an unwrap
code_gen_cell_exec_openai(c) ==
    LET split == split_frontmatter(c.complete_body)
        parsed == serde_yaml_from_str(split.frontmatter)
        role_blocks == extract_roles_from_template(SystemInstructionTemplate)
                           \o extract_roles_from_template(split.req)
    IN IF ~split.ok \/ ~parsed.ok THEN ExecPanicked
       ELSE ExecClosure(c.name, parsed.configuration, c.function_invocation, role_blocks)

\* a gate that forgets the negation
ShortCircuitsInverted(closure) ==
    closure.configuration.function_name # None /\ closure.is_function_invocation

\* configuration.function_name.is_some() && !is_function_invocation
ShortCircuits(closure) ==
    closure.configuration.function_name # None /\ ~closure.is_function_invocation

\* ai_llm_code_generation_chat_model(&s, payload, role_blocks, name,
\* is_function_invocation, configuration): Ok((value, state)) or Err
ai_llm_code_generation_chat_model(s, payload, role_blocks, name, fi, configuration) ==
    {[ok |-> TRUE, value |-> String("generated"), state |-> st] : st \in {None, Some(s)}}
    \cup {[ok |-> FALSE, value |-> Null, state |-> None]}

ExecutionNodeIds == {0}

GenInvIdle == [pc |-> "idle", calls |-> 0, s |-> ExecutionState_new, payload |-> Null,
               envelopes |-> <<>>, errors |-> 0]

GenInit ==
    /\ gcell \in GenCells
    /\ gnode = None
    /\ gcompile = [attempts |-> 0, outcome |-> "none", role_blocks |-> None]
    /\ gexec = None
    /\ ginv = GenInvIdle
    /\ backend_calls = <<>>

GenOthers == UNCHANGED <<deriver_vars, code_vars, prompt_vars>>

\* code_gen_cell(execution_state_id, &cell, &range)
GenCompile(execution_state_id) ==
    /\ gcompile.attempts < MaxCompiles
    /\ LET r == code_gen_cell(execution_state_id, gcell)
       IN /\ gnode' = r.node
          /\ gcompile' = [attempts |-> gcompile.attempts + 1, outcome |-> r.outcome,
                          role_blocks |-> r.role_blocks]
    /\ UNCHANGED <<gcell, gexec, ginv, backend_calls>>
    /\ GenOthers

\* code_gen_cell_exec_openai(cell)
GenMakeExec ==
    /\ gexec = None
    /\ gexec' = code_gen_cell_exec_openai(gcell)
    /\ UNCHANGED <<gcell, gnode, gcompile, ginv, backend_calls>>
    /\ GenOthers

\* the closure is called: it short-circuits, or goes on to the backend call
GenInvoke(s, payload) ==
    /\ gexec # None /\ gexec.tag = "Closure"
    /\ ginv.pc = "idle"
    /\ ginv.calls < MaxCalls
    /\ IF ShortCircuits(gexec)
       THEN /\ ginv' = [ginv EXCEPT !.calls = @ + 1, !.s = s, !.payload = payload,
                                    !.envelopes = Append(@, with_value(Null))]
            /\ UNCHANGED backend_calls
       ELSE /\ ginv' = [ginv EXCEPT !.pc = "awaiting", !.calls = @ + 1,
                                    !.s = s, !.payload = payload]
            /\ backend_calls' = Append(backend_calls,
                                    [payload |-> payload, role_blocks |-> gexec.role_blocks])
    /\ UNCHANGED <<gcell, gnode, gcompile, gexec>>
    /\ GenOthers

\* the backend call completes: `?` hands an Err back, otherwise the envelope is built
GenResume ==
    /\ ginv.pc = "awaiting"
    /\ \E r \in ai_llm_code_generation_chat_model(ginv.s, ginv.payload, gexec.role_blocks,
                    gexec.name, gexec.is_function_invocation, gexec.configuration) :
          ginv' = IF r.ok
                  THEN [ginv EXCEPT !.pc = "idle",
                                    !.envelopes = Append(@,
                                        OperationFnOutput(FALSE, r.state, r.value, <<>>, <<>>))]
                  ELSE [ginv EXCEPT !.pc = "idle", !.errors = @ + 1]
    /\ UNCHANGED <<gcell, gnode, gcompile, gexec, backend_calls>>
    /\ GenOthers

GenNext ==
    \/ \E id \in ExecutionNodeIds : GenCompile(id)
    \/ GenMakeExec
    \/ \E a \in CallArgs : GenInvoke(a.s, a.x)
    \/ GenResume

InitGen == GenInit /\ DeriverIdle /\ CodeIdle /\ PromptIdle

SpecGen == InitGen /\ [][GenNext]_vars

----------------------------------------------------------------------------
(* Chat prompt cell: llm_prompt_cell and the OpenAI batch adapter *)

\* the role blocks a prompt template may hold; "bad" does not render, and a
\* block may come without a compiled template
PromptBlocks == {RoleBlock("User", Some(TemplateWithSource("u"))),
                 RoleBlock("System", Some(TemplateWithSource("s"))),
                 RoleBlock("Assistant", Some(TemplateWithSource("bad"))),
                 RoleBlock("User", None)}

PromptCells == [variant : {"Chat", "Completion", "Embedding"}, provider : {"OpenAI"},
                req : [blocks : SeqsUpTo(PromptBlocks, MaxBlocks),
                       items : {[k \in {"a"} |-> "_"]}]]

\* RkyvSerializedValue::Object(m)
Object(m) == [tag |-> "Object", m |-> m]

PromptInputs == {Object([globals |-> String("g")]), Object([other |-> String("o")]),
                 String("v1")}

\* serialized_value_to_json_value(&v)
serialized_value_to_json_value(v) == [json |-> v]

\* render_template_prompt(&source, &data, &partials): Ok(text) or Err
render_template_prompt(source, data) ==
    IF source = "bad" THEN [ok |-> FALSE, text |-> [template |-> source, data |-> data]]
    ELSE [ok |-> TRUE, text |-> [template |-> source, data |-> data]]

\* ChatModelRoles -> llm::MessageRole (llm_prompt_cell.rs:55-59)
MessageRoleOf(role) ==
    CASE role = "User" -> "MessageRole::User"
      [] role = "System" -> "MessageRole::System"
      [] role = "Assistant" -> "MessageRole::Assistant"

\* llm::MessageRole -> openai MessageRole with System and User exchanged
OpenAIRoleOfSwapped(role) ==
    CASE role = "MessageRole::User" -> "system"
      [] role = "MessageRole::System" -> "user"
      [] role = "MessageRole::Assistant" -> "assistant"
      [] role = "MessageRole::Function" -> "function"

\* llm::MessageRole -> openai MessageRole (batch.rs:37-42)
OpenAIRoleOf(role) ==
    CASE role = "MessageRole::User" -> "user"
      [] role = "MessageRole::System" -> "system"
      [] role = "MessageRole::Assistant" -> "assistant"
      [] role = "MessageRole::Function" -> "function"

TemplateMessage(role, content) ==
    [role |-> role, content |-> content, name |-> None, function_call |-> None]

\* the data the blocks are rendered against (llm_prompt_cell.rs:45-51);
\* None when the object has no "globals" key and expect() panics
PromptData(x) ==
    IF x.tag = "Object"
    THEN IF "globals" \in DOMAIN x.m
         THEN Some(serialized_value_to_json_value(x.m["globals"]))
         ELSE None
    ELSE Some(serialized_value_to_json_value(x))

\* for (a, b) in &role_blocks { template_messages.push(..) }; None when an
\* unwrap in the loop body panics
RECURSIVE PushTemplateMessages(_, _, _, _)
PushTemplateMessages(role_blocks, i, data, template_messages) ==
    IF i > Len(role_blocks) THEN Some(template_messages)
    ELSE LET b == role_blocks[i]
         IN IF b.template = None THEN None                       \* b.as_ref().unwrap()
            ELSE LET r == render_template_prompt(b.template.v.source, data)
                 IN IF ~r.ok THEN None                           \* render(..).unwrap()
                    ELSE PushTemplateMessages(role_blocks, i + 1, data,
                            Append(template_messages,
                                   TemplateMessage(MessageRoleOf(b.role), r.text)))

ChatCompletionReq(model, template_messages) ==
    [model |-> model, template_messages |-> template_messages]

\* the ChatCompletionRequest built by batch (batch.rs:30-65)
ChatCompletionRequest(chat_completion_req) ==
    [model |-> chat_completion_req.model,
     messages |-> [k \in DOMAIN chat_completion_req.template_messages |->
                     LET m == chat_completion_req.template_messages[k]
                     IN [role |-> OpenAIRoleOf(m.role), content |-> m.content,
                         name |-> m.name, function_call |-> m.function_call]],
     functions |-> None, function_call |-> None]

\* what the provider may answer: an APIError, or a response with its choices,
\* each with an optional message content
ChoiceTexts == {None, Some("t1"), Some("t2")}
ProviderAnswers ==
    {[ok |-> FALSE, choices |-> <<>>]}
    \cup {[ok |-> TRUE, choices |-> cs] : cs \in SeqsUpTo(ChoiceTexts, MaxChoices)}

\* the mapping of the provider's answer by batch (batch.rs:66-89)
ChatCompletionRes(answer) ==
    IF answer.ok
    THEN [ok |-> TRUE,
          choices |-> [k \in DOMAIN answer.choices |->
                         [text |-> answer.choices[k], index |-> 0]]]
    ELSE [ok |-> FALSE, choices |-> <<>>]

NoResult == [tag |-> "NoResult"]

\* llm_prompt_cell.rs:83-87; None when choices[0] or text.unwrap() panics
PromptOutput(result) ==
    IF result.ok
    THEN IF Len(result.choices) = 0 THEN None
         ELSE IF result.choices[1].text = None THEN None
         ELSE Some(String(result.choices[1].text.v))
    ELSE Some(Null)

\* llm_prompt_cell(cell)
llm_prompt_cell(c) ==
    IF c.variant = "Chat"
    THEN [input_signature |-> InsertDepended(DOMAIN c.req.items, InputSignature_new),
          output_signature |-> OutputSignature_new,
          closure |-> "Chat",
          role_blocks |-> extract_roles_from_template(c.req)]
    ELSE [input_signature |-> InputSignature_new,
          output_signature |-> OutputSignature_new,
          closure |-> "Identity",
          role_blocks |-> <<>>]

\* the threads that call the closure of the node, each once
PromptCallers == {1, 2}

PromptInvIdle(api_key) ==
    [pc |-> "idle", api_key |-> api_key, x |-> Null,
     template_messages |-> <<>>, requests |-> 0, req_id |-> 0, result |-> NoResult,
     outcome |-> "none", output |-> Null]

PromptInit ==
    /\ pcell \in PromptCells
    /\ pnode = None
    /\ \E api_key \in {None, Some("key")} :
          pinv = [i \in PromptCallers |-> PromptInvIdle(api_key)]
    /\ batch_reqs = <<>>
    /\ provider_reqs = <<>>

PromptOthers == UNCHANGED <<deriver_vars, code_vars, gen_vars>>

PromptCompile ==
    /\ pnode = None
    /\ pnode' = Some(llm_prompt_cell(pcell))
    /\ UNCHANGED <<pcell, pinv, batch_reqs, provider_reqs>>
    /\ PromptOthers

\* caller i has not called yet; callers are numbered in the order they call
PromptCallable(i) ==
    /\ pnode # None
    /\ pinv[i].pc = "idle" /\ pinv[i].outcome = "none"
    /\ \A j \in PromptCallers :
          j < i => (pinv[j].pc # "idle" \/ pinv[j].outcome # "none")

\* the Chat closure from its call to the batch call (llm_prompt_cell.rs:43-68)
PromptInvoke(i, x) ==
    /\ PromptCallable(i)
    /\ pnode.v.closure = "Chat"
    /\ LET data == PromptData(x)
           template_messages ==
               IF data = None THEN None
               ELSE PushTemplateMessages(pnode.v.role_blocks, 1, data.v, <<>>)
           started == [pinv[i] EXCEPT !.x = x]
       IN pinv' = [pinv EXCEPT ![i] =
                     IF data = None \/ template_messages = None \/ pinv[i].api_key = None
                     THEN [started EXCEPT !.outcome = "panicked"]
                     ELSE [started EXCEPT !.pc = "calling",
                                          !.template_messages = template_messages.v]]
    /\ UNCHANGED <<pcell, pnode, batch_reqs, provider_reqs>>
    /\ PromptOthers

\* c.batch(ChatCompletionReq{..}): the adapter builds the request and hands it
\* to the provider; the thread then blocks inside client.chat_completion
\* (batch.rs:26-67)
PromptBatch(i) ==
    /\ pinv[i].pc = "calling"
    /\ LET chat_completion_req ==
               ChatCompletionReq("gpt-3.5-turbo", pinv[i].template_messages)
       IN /\ batch_reqs' = Append(batch_reqs, chat_completion_req)
          /\ provider_reqs' = Append(provider_reqs, ChatCompletionRequest(chat_completion_req))
    /\ pinv' = [pinv EXCEPT ![i] = [@ EXCEPT !.pc = "waiting", !.requests = @ + 1,
                                             !.req_id = Len(batch_reqs) + 1]]
    /\ UNCHANGED <<pcell, pnode>>
    /\ PromptOthers

\* the provider answers: client.chat_completion returns and batch maps the
\* answer (batch.rs:66-89)
PromptAnswer(i) ==
    /\ pinv[i].pc = "waiting"
    /\ \E answer \in ProviderAnswers :
          pinv' = [pinv EXCEPT ![i] = [@ EXCEPT !.pc = "responded",
                                                !.result = ChatCompletionRes(answer)]]
    /\ UNCHANGED <<pcell, pnode, batch_reqs, provider_reqs>>
    /\ PromptOthers

\* runtime::Runtime::new().unwrap() or rt.block_on(..) panics before batch is
\* entered (llm_prompt_cell.rs:71-74): no runtime can be built, or the closure
\* is itself running inside a tokio runtime; no request is made
PromptRuntimePanics(i) ==
    /\ pinv[i].pc = "calling"
    /\ pinv' = [pinv EXCEPT ![i] = [@ EXCEPT !.pc = "idle", !.outcome = "panicked"]]
    /\ UNCHANGED <<pcell, pnode, batch_reqs, provider_reqs>>
    /\ PromptOthers

\* the closure maps the result to its return value (llm_prompt_cell.rs:83-87)
PromptReturn(i) ==
    /\ pinv[i].pc = "responded"
    /\ LET out == PromptOutput(pinv[i].result)
       IN pinv' = [pinv EXCEPT ![i] =
                     IF out = None
                     THEN [@ EXCEPT !.pc = "idle", !.outcome = "panicked"]
                     ELSE [@ EXCEPT !.pc = "idle", !.outcome = "returned",
                                    !.output = out.v]]
    /\ UNCHANGED <<pcell, pnode, batch_reqs, provider_reqs>>
    /\ PromptOthers

\* the Completion and Embedding closures: |x, _| x
PromptIdentity(i, x) ==
    /\ PromptCallable(i)
    /\ pnode.v.closure = "Identity"
    /\ pinv' = [pinv EXCEPT ![i] = [@ EXCEPT !.x = x, !.outcome = "returned",
                                             !.output = x]]
    /\ UNCHANGED <<pcell, pnode, batch_reqs, provider_reqs>>
    /\ PromptOthers

PromptNext ==
    \/ PromptCompile
    \/ \E i \in PromptCallers, x \in PromptInputs : PromptInvoke(i, x)
    \/ \E i \in PromptCallers : PromptRuntimePanics(i)
    \/ \E i \in PromptCallers : PromptBatch(i)
    \/ \E i \in PromptCallers : PromptAnswer(i)
    \/ \E i \in PromptCallers : PromptReturn(i)
    \/ \E i \in PromptCallers, x \in PromptInputs : PromptIdentity(i, x)

InitPrompt == PromptInit /\ DeriverIdle /\ CodeIdle /\ GenIdle

SpecPrompt == InitPrompt /\ [][PromptNext]_vars

----------------------------------------------------------------------------
(* Properties of the signature deriver *)

\* C1: the derived input globals are keyed by exactly the report's
\* depended-upon names, each entry string-typed with no default; the derived
\* output globals are keyed by exactly the exposed names and the output
\* functions by exactly the triggerable function names.
C1_SignatureKeysExact ==
    derived # None =>
        LET input_signature == derived.v[1]
            output_signature == derived.v[2]
        IN /\ DOMAIN input_signature.globals = DOMAIN report.cell_depended_values
           /\ DOMAIN output_signature.globals = DOMAIN report.cell_exposed_values
           /\ DOMAIN output_signature.functions = DOMAIN report.triggerable_functions
           /\ \A k \in DOMAIN input_signature.globals :
                 /\ input_signature.globals[k].ty = Some("String")
                 /\ input_signature.globals[k].default = None

C1_Witness ==
    /\ derived # None
    /\ DOMAIN report.cell_depended_values = {"a", "b"}
    /\ DOMAIN report.cell_exposed_values = {"c"}
    /\ DOMAIN report.triggerable_functions = {"f"}
    /\ report.triggerable_functions["f"].arguments = <<"x", "y">>
    /\ DOMAIN derived.v[1].globals = {"a", "b"}

\* C11: every entry of the derived output functions is a Function whose own
\* input signature has exactly the function's declared argument names under
\* args and no globals, with emit_event and trigger_on empty; the node's own
\* input signature keeps the depended-upon names as globals and has no args,
\* so the arguments of one function reach neither the node nor another
\* function.
C11_FunctionSignaturesFresh ==
    derived # None =>
        LET input_signature == derived.v[1]
            functions == derived.v[2].functions
            fns == report.triggerable_functions
        IN /\ input_signature.args = EmptyMap
           /\ DOMAIN input_signature.globals = DOMAIN report.cell_depended_values
           /\ \A f \in DOMAIN functions :
                 /\ functions[f].tag = "Function"
                 /\ DOMAIN functions[f].input_signature.args =
                       {fns[f].arguments[i] : i \in DOMAIN fns[f].arguments}
                 /\ functions[f].input_signature.globals = EmptyMap
                 /\ functions[f].emit_event = <<>>
                 /\ functions[f].trigger_on = <<>>

C11_Witness ==
    /\ derived # None
    /\ DOMAIN report.cell_depended_values = {"a"}
    /\ DOMAIN report.triggerable_functions = {"f", "g"}
    /\ report.triggerable_functions["f"].arguments = <<"x">>
    /\ report.triggerable_functions["g"].arguments = <<"y", "y">>
    /\ DOMAIN derived.v[2].functions["f"].input_signature.args = {"x"}
    /\ DOMAIN derived.v[2].functions["g"].input_signature.args = {"y"}
    /\ derived.v[1].args = EmptyMap

----------------------------------------------------------------------------
(* Properties of source-code cell invocations *)

Finished(i) == inv[i].pc \in {"returned", "panicked"}

\* C4: every invocation that has ended, by success or by failure, has
\* produced exactly one envelope, and no invocation ever produces two.
C4_ExactlyOneEnvelope ==
    \A i \in InvIds :
        /\ Len(inv[i].envelopes) <= 1
        /\ Finished(i) => Len(inv[i].envelopes) = 1

\* C5: when the backend fails during an invocation, the invocation does not
\* end abruptly: it returns an envelope with has_error set that carries the
\* stdout and stderr lines captured before the failure.
C5_FailureCaptured ==
    \A i \in InvIds :
        (Finished(i) /\ inv[i].backend.done /\ ~inv[i].backend.ok) =>
            /\ inv[i].pc = "returned"
            /\ Len(inv[i].envelopes) = 1
            /\ inv[i].envelopes[1].has_error
            /\ inv[i].envelopes[1].stdout = inv[i].backend.stdout
            /\ inv[i].envelopes[1].stderr = inv[i].backend.stderr

\* C6: concurrent invocations of a Deno node never share an execution
\* context; each context starts from an empty ExecutionState and only ever
\* holds the input of the invocation that created it, and an invocation that
\* returns hands back the value computed from its own input.
C6_IsolatedInvocations ==
    \A i \in InvIds :
        /\ \A j \in InvIds \ {i} :
              (inv[i].ctx # 0 /\ inv[j].ctx # 0) => inv[i].ctx # inv[j].ctx
        /\ inv[i].ctx # 0 =>
              /\ inv[i].ctx \in DOMAIN contexts
              /\ contexts[inv[i].ctx].state = ExecutionState_new
              /\ contexts[inv[i].ctx].loaded \in {None, Some(inv[i].x)}
              /\ (inv[i].pc \in {"running", "loaded", "evaluated"})
                    => contexts[inv[i].ctx].live
        /\ (Closure("Deno") /\ inv[i].pc = "returned") =>
              /\ Len(inv[i].envelopes) = 1
              /\ inv[i].envelopes[1].output =
                    [tag |-> "Object", src |-> cell.source_code.text,
                     state |-> ExecutionState_new, of |-> inv[i].x]

\* two invocations with different inputs overlap: the second to arrive got its
\* context first and is mid-run when the first returns
C6_Witness ==
    /\ Closure("Deno")
    /\ inv[1].pc = "returned"
    /\ inv[2].pc = "loaded"
    /\ inv[1].x # inv[2].x
    /\ inv[2].ctx < inv[1].ctx

\* C7: a Starlark cell compiles to a node with empty input and output
\* signatures whose invocation returns its input unchanged, with empty
\* stdout and stderr, has_error false, and without calling any backend.
C7_StarlarkPassThrough ==
    (node # None /\ cell.language = "Starlark") =>
        /\ node.v.input_signature.globals = EmptyMap
        /\ node.v.input_signature.args = EmptyMap
        /\ node.v.output_signature.globals = EmptyMap
        /\ node.v.output_signature.functions = EmptyMap
        /\ \A i \in InvIds :
              inv[i].pc # "idle" =>
                 /\ inv[i].pc = "returned"
                 /\ Len(inv[i].envelopes) = 1
                 /\ inv[i].envelopes[1].output = inv[i].x
                 /\ inv[i].envelopes[1].stdout = <<>>
                 /\ inv[i].envelopes[1].stderr = <<>>
                 /\ inv[i].envelopes[1].has_error = FALSE
                 /\ inv[i].backend_calls = 0
                 /\ contexts = EmptyMap

C7_Witness ==
    /\ node # None
    /\ cell.language = "Starlark"
    /\ cell.source_code.text = "src1"
    /\ inv[1].pc = "returned"
    /\ inv[1].x = String("v1")
    /\ inv[2].pc = "returned"
    /\ inv[2].x = String("v2")

\* the execution state the caller holds once invocation i has ended: the
\* replacement an envelope carries, if any, and otherwise the state passed in
CallerStateAfter(i) ==
    IF \E k \in DOMAIN inv[i].envelopes : inv[i].envelopes[k].execution_state # None
    THEN LET k == CHOOSE j \in DOMAIN inv[i].envelopes :
                        inv[i].envelopes[j].execution_state # None
         IN inv[i].envelopes[k].execution_state.v
    ELSE inv[i].s

\* C14: no envelope of a source-code cell node carries an execution state,
\* on the PyO3, Starlark and Deno paths alike; a Deno run works on an empty
\* ExecutionState of its own, not on the caller's; and the caller's state
\* after an invocation, returned or failed, is the state it passed in.
C14_NoReplacementState ==
    node # None =>
        \A i \in InvIds :
            /\ \A k \in DOMAIN inv[i].envelopes :
                  inv[i].envelopes[k].execution_state = [tag |-> "None"]
            /\ inv[i].ctx # 0 => contexts[inv[i].ctx].state = [bindings |-> {}]
            /\ (Closure("Deno") /\ inv[i].backend.done /\ inv[i].backend.ok) =>
                  inv[i].backend.value.state = [bindings |-> {}]
            /\ Finished(i) => CallerStateAfter(i) = inv[i].s

\* a Deno run fails for a caller whose state is not empty, while another
\* invocation has returned
C14_Witness ==
    /\ Closure("Deno")
    /\ inv[1].s = [bindings |-> {"k"}]
    /\ inv[1].pc = "panicked"
    /\ inv[1].backend.done /\ ~inv[1].backend.ok
    /\ inv[1].ctx # 0
    /\ inv[2].pc = "returned"
    /\ Len(inv[2].envelopes) = 1

----------------------------------------------------------------------------
(* Properties of the code-generation cell *)

ConfigOf(c) == c.complete_body.configuration

\* C2: a cell whose configuration has no function name while
\* function_invocation is true never compiles to a node: every attempt ends
\* in a panic, with no node built.
C2_NoNodeWithoutFunctionName ==
    (/\ gcell.complete_body.splits
     /\ ConfigOf(gcell) # None
     /\ ConfigOf(gcell).v.function_name = None
     /\ gcell.function_invocation) =>
        /\ gnode = None
        /\ gcompile.attempts > 0 => gcompile.outcome = "panic"

C2_Witness ==
    /\ gcell.complete_body.splits
    /\ ConfigOf(gcell) # None
    /\ ConfigOf(gcell).v.function_name = None
    /\ gcell.function_invocation
    /\ gcell.complete_body.req.items # None
    /\ gcompile.attempts = MaxCompiles
    /\ gcompile.outcome = "panic"

\* C3: a closure whose configuration names a function and whose cell is not a
\* function invocation answers every call with an envelope whose output is
\* Null, and never calls the generation backend.
C3_GatedShortCircuit ==
    (/\ gexec # None /\ gexec.tag = "Closure"
     /\ ConfigOf(gcell).v.function_name # None
     /\ ~gcell.function_invocation) =>
        /\ backend_calls = <<>>
        /\ ginv.pc = "idle"
        /\ ginv.errors = 0
        /\ Len(ginv.envelopes) = ginv.calls
        /\ \A k \in DOMAIN ginv.envelopes : ginv.envelopes[k].output = Null

C3_Witness ==
    /\ gexec # None /\ gexec.tag = "Closure"
    /\ ConfigOf(gcell).v.function_name # None
    /\ ~gcell.function_invocation
    /\ ginv.calls = MaxCalls
    /\ Len(ginv.envelopes) = MaxCalls

SystemInstructionBlock ==
    [role |-> "System", template |-> Some([source |-> "codegen_instruction"])]

\* C8: the role blocks built at compile time, the role blocks the closure
\* holds, and the role blocks handed to every generation call are the system
\* instruction block followed by the cell's own blocks in their order.
C8_RoleBlockOrder ==
    LET own == gcell.complete_body.req.blocks
        expected == <<SystemInstructionBlock>> \o own
    IN /\ gcompile.role_blocks # None =>
            /\ gcompile.role_blocks.v = expected
            /\ Len(gcompile.role_blocks.v) = Len(own) + 1
       /\ (gexec # None /\ gexec.tag = "Closure") => gexec.role_blocks = expected
       /\ (gcompile.role_blocks # None /\ gexec # None /\ gexec.tag = "Closure") =>
            gexec.role_blocks = gcompile.role_blocks.v
       /\ \A k \in DOMAIN backend_calls : backend_calls[k].role_blocks = expected

C8_Witness ==
    /\ Len(gcell.complete_body.req.blocks) = MaxBlocks
    /\ gcell.complete_body.req.blocks[1] # gcell.complete_body.req.blocks[2]
    /\ gcompile.outcome = "ok"
    /\ gexec # None /\ gexec.tag = "Closure"
    /\ Len(backend_calls) > 0

C8_WitnessNoBlocks ==
    /\ gcell.complete_body.req.blocks = <<>>
    /\ gcompile.outcome = "ok"
    /\ gexec # None /\ gexec.tag = "Closure"
    /\ gexec.role_blocks = <<SystemInstructionBlock>>

\* C12: the output signature of a compiled code-generation node has the
\* configured function name as its only key under functions when a function
\* name is configured and no function otherwise, and the cell's name as its
\* only key under globals when the cell is named and no global otherwise;
\* every entry is a Value.
C12_GenOutputSignature ==
    gnode # None =>
        LET out == gnode.v.output_signature
            function_name == ConfigOf(gcell).v.function_name
        IN /\ DOMAIN out.functions =
                 (IF function_name # None THEN {function_name.v} ELSE {})
           /\ DOMAIN out.globals = (IF gcell.name # None THEN {gcell.name.v} ELSE {})
           /\ \A k \in DOMAIN out.functions : out.functions[k] = [tag |-> "Value"]
           /\ \A k \in DOMAIN out.globals : out.globals[k] = [tag |-> "Value"]

\* a named cell with a function name: both entries are present
C12_Witness ==
    /\ gnode # None
    /\ gcell.name = Some("gen")
    /\ ConfigOf(gcell).v.function_name = Some("gen_fn")
    /\ DOMAIN gnode.v.output_signature.functions = {"gen_fn"}
    /\ DOMAIN gnode.v.output_signature.globals = {"gen"}

C12_WitnessNamedOnly ==
    /\ gnode # None
    /\ gcell.name = Some("gen")
    /\ ConfigOf(gcell).v.function_name = None
    /\ DOMAIN gnode.v.output_signature.globals = {"gen"}

C12_WitnessFunctionOnly ==
    /\ gnode # None
    /\ gcell.name = None
    /\ ConfigOf(gcell).v.function_name = Some("gen_fn")
    /\ DOMAIN gnode.v.output_signature.functions = {"gen_fn"}

C12_WitnessNeither ==
    /\ gnode # None
    /\ gcell.name = None
    /\ ConfigOf(gcell).v.function_name = None
    /\ gnode.v.output_signature.functions = EmptyMap
    /\ gnode.v.output_signature.globals = EmptyMap

\* C13: the input signature of a compiled code-generation node has the
\* template's placeholder names as its globals when no function name is
\* configured, and is empty when one is, whatever the template references;
\* it never has args.
C13_GenInputSignature ==
    gnode # None =>
        LET input_signature == gnode.v.input_signature
            function_name == ConfigOf(gcell).v.function_name
            items == gcell.complete_body.req.items
        IN /\ input_signature.args = EmptyMap
           /\ function_name = None =>
                 /\ DOMAIN input_signature.globals = DOMAIN items.v
                 /\ \A k \in DOMAIN input_signature.globals :
                       input_signature.globals[k] =
                           [ty |-> Some("String"), default |-> None]
           /\ function_name # None => input_signature.globals = EmptyMap

\* a function name is configured and the template references placeholders
C13_Witness ==
    /\ gnode # None
    /\ ConfigOf(gcell).v.function_name = Some("gen_fn")
    /\ gcell.complete_body.req.items # None
    /\ DOMAIN gcell.complete_body.req.items.v = {"a", "b"}
    /\ gnode.v.input_signature.globals = EmptyMap

C13_WitnessNoFunctionName ==
    /\ gnode # None
    /\ ConfigOf(gcell).v.function_name = None
    /\ DOMAIN gnode.v.input_signature.globals = {"a", "b"}

----------------------------------------------------------------------------
(* Properties of the chat prompt cell *)

ChatNode == pnode # None /\ pnode.v.closure = "Chat"

\* invocation i of the closure has ended, by return or by panic
PromptEnded(i) == pinv[i].pc = "idle" /\ pinv[i].outcome \in {"returned", "panicked"}

\* C9: an invocation of a chat node whose batched call has been answered
\* always returns: Null when the call failed, and the text of the first
\* choice of the response when the call succeeded.
C9_ProviderFailureIsNull ==
    \A i \in PromptCallers :
        (ChatNode /\ pinv[i].pc = "idle" /\ pinv[i].result # NoResult) =>
            /\ pinv[i].outcome = "returned"
            /\ ~pinv[i].result.ok => pinv[i].output = Null
            /\ pinv[i].result.ok =>
                  /\ Len(pinv[i].result.choices) > 0
                  /\ pinv[i].result.choices[1].text # None
                  /\ pinv[i].output =
                        [tag |-> "String", s |-> pinv[i].result.choices[1].text.v]

RoleNames == [User |-> "user", System |-> "system", Assistant |-> "assistant"]

\* C10: every invocation of a chat node with role blocks b1..bn issues exactly
\* one batch request; its message list has n messages, message i with the
\* role of block i and the rendering of block i against the input, in the
\* same order, and the adapter sends the provider a list of the same length,
\* order and roles.
C10_MessagesFollowBlocks ==
    ChatNode =>
        LET blocks == pcell.req.blocks
            n == Len(blocks)
        IN /\ Len(batch_reqs) = Len(provider_reqs)
           /\ \A i \in PromptCallers :
                /\ pinv[i].requests <= 1
                /\ PromptEnded(i) => pinv[i].requests = 1
                /\ pinv[i].requests = 1 =>
                     LET req == batch_reqs[pinv[i].req_id]
                         sent == provider_reqs[pinv[i].req_id]
                         data == IF pinv[i].x.tag = "Object"
                                 THEN [json |-> pinv[i].x.m["globals"]]
                                 ELSE [json |-> pinv[i].x]
                     IN /\ Len(req.template_messages) = n
                        /\ Len(sent.messages) = n
                        /\ \A k \in 1..n :
                             /\ req.template_messages[k].role =
                                   "MessageRole::" \o blocks[k].role
                             /\ req.template_messages[k].content =
                                   [template |-> blocks[k].template.v.source,
                                    data |-> data]
                             /\ sent.messages[k].role = RoleNames[blocks[k].role]
                             /\ sent.messages[k].content =
                                   req.template_messages[k].content

====
